---- MODULE Spec2Model ----
(***************************************************************************)
(* genmethods: a model of src/main.go.                                     *)
(*                                                                         *)
(* One run of the tool is a pipeline: loadPkg, then parsePkg visiting the  *)
(* files of the package and the declarations of each file in order, then   *)
(* printMethods.  The package is revealed declaration by declaration: each *)
(* visit draws the next declaration from the bounded set of shapes below.  *)
(***************************************************************************)
EXTENDS Integers, Sequences, FiniteSets, TLC

\* The package's syntax holds at most MaxNodes nodes (files, declarations,
\* doc comments, receivers, parameter names, results).
MaxNodes == 6

------------------------------------------------------------------------------
(* Program constants                                                        *)

\* flag default of -pkg
DefaultPkgPath == "github.com/jupiterrider/purego-sdl3/sdl"

validMethodTypes ==
    { "*github.com/jupiterrider/purego-sdl3/sdl.Camera",
      "*github.com/jupiterrider/purego-sdl3/sdl.Cursor",
      "*github.com/jupiterrider/purego-sdl3/sdl.Renderer",
      "*github.com/jupiterrider/purego-sdl3/sdl.Surface",
      "*github.com/jupiterrider/purego-sdl3/sdl.Texture",
      "*github.com/jupiterrider/purego-sdl3/sdl.Window" }

renameMethod ==
    [ AcquireCameraFrame  |-> "AcquireFrame",
      CloseCamera         |-> "Close",
      ReleaseCameraFrame  |-> "ReleaseFrame",
      DestroyCursor       |-> "Destroy",
      GetRendererName     |-> "GetName",
      DestroyRenderer     |-> "Destroy",
      RenderClear         |-> "Clear",
      RenderPresent       |-> "Present",
      SetRenderDrawColor  |-> "SetDrawColor",
      SetRenderVSync      |-> "SetVSync",
      BlitSurface         |-> "Blit",
      DestroySurface      |-> "Destroy",
      LockSurface         |-> "Lock",
      UnlockSurface       |-> "Unlock",
      DestroyTexture      |-> "Destroy",
      DestroyWindow       |-> "Destroy",
      GetWindowSize       |-> "GetSize",
      GetWindowSurface    |-> "GetSurface",
      HideWindow          |-> "Hide",
      SetWindowSize       |-> "SetSize",
      ShowWindow          |-> "Show",
      UpdateWindowSurface |-> "UpdateSurface" ]

pre == "// Code generated by \"genmethods\"; DO NOT EDIT.\n"

------------------------------------------------------------------------------
(* The syntax tree (go/ast) as far as the program reads and builds it       *)

\* A nil *ast.FieldList / *ast.CommentGroup, and a non-nil one with a List.
Nil == [nil |-> TRUE, List |-> <<>>]
Ptr(list) == [nil |-> FALSE, List |-> list]

\* An identifier of the loaded source: a node with its position.
Ident(name, pos) == [Name |-> name, NamePos |-> pos]

\* ast.NewIdent: a fresh identifier without position (token.NoPos).
NewIdent(name) == [Name |-> name, NamePos |-> 0]

Field(names, type) == [Names |-> names, Type |-> type]

\* Type expressions of a first parameter slot, and of every later slot.
FirstTypeExprs == {"*Window", "*Event"}
LaterTypeExpr == "*int32"
TypeExprs == FirstTypeExprs \cup {LaterTypeExpr}

\* gen.pkg.TypesInfo.Types[expr].Type.String(): the canonical string of the
\* type the checker resolved the expression to.
TypeString ==
    [e \in TypeExprs |->
        CASE e = "*Window" -> "*github.com/jupiterrider/purego-sdl3/sdl.Window"
          [] e = "*Event"  -> "*github.com/jupiterrider/purego-sdl3/sdl.Event"
          [] OTHER         -> "*int32"]

\* Function identifiers of the loaded package: one the table renames, one not.
FuncNames == {"DestroyWindow", "PollEvent"}

ParamNames == <<"win", "w", "h", "x", "y", "z">>
ParamName(k) == IF k <= Len(ParamNames) THEN ParamNames[k] ELSE "arg"

\* Sequences of positive integers that sum to n: the names per slot of a
\* parameter list with n names.
RECURSIVE Comps(_)
Comps(n) ==
    IF n = 0 THEN {<<>>}
    ELSE UNION { { <<k>> \o c : c \in Comps(n - k) } : k \in 1..n }

\* Names per slot of a parameter list: named slots (one name or a group), or
\* unnamed slots only (Go does not mix the two).
SlotShapes ==
    UNION { Comps(n) : n \in 0..MaxNodes }
    \cup { [i \in 1..n |-> 0] : n \in 1..MaxNodes }

\* The shapes of a function declaration: its identifier, whether it has a doc
\* comment and a receiver, the names per parameter slot, the type expression
\* of the first slot, and its result list (nil, empty, or one result).
FuncShapes ==
    [ name : FuncNames, doc : BOOLEAN, recv : BOOLEAN, slots : SlotShapes,
      first : FirstTypeExprs, results : {"nil", "empty", "one"} ]

RECURSIVE SumSlots(_)
SumSlots(slots) ==
    IF slots = <<>> THEN 0
    ELSE (IF Head(slots) = 0 THEN 1 ELSE Head(slots)) + SumSlots(Tail(slots))

\* Number of syntax nodes of a declaration of shape s.
Size(s) ==
    1 + (IF s.doc THEN 1 ELSE 0) + (IF s.recv THEN 1 ELSE 0)
      + SumSlots(s.slots) + (IF s.results = "one" THEN 1 ELSE 0)

\* Number of names in the slots before slot i.
RECURSIVE NamesBefore(_, _)
NamesBefore(slots, i) ==
    IF i <= 1 THEN 0 ELSE NamesBefore(slots, i - 1) + slots[i - 1]

\* The shapes of each size.
ShapesOfSize == [n \in 1..MaxNodes |-> {s \in FuncShapes : Size(s) = n}]

\* The *ast.FuncDecl of shape s whose first node is at offset p.
FuncDeclAt(s, p) ==
    [ kind |-> "FuncDecl",
      Doc  |-> IF s.doc
                 THEN Ptr(<<[Slash |-> p * 100 + 1, Text |-> "// " \o s.name]>>)
                 ELSE Nil,
      Recv |-> IF s.recv
                 THEN Ptr(<<Field(<<Ident("r", p * 100 + 2)>>, "*Window")>>)
                 ELSE Nil,
      Name |-> Ident(s.name, p * 100 + 3),
      Type |-> [ Params |->
                   Ptr([ i \in 1..Len(s.slots) |->
                         Field([ j \in 1..s.slots[i] |->
                                 Ident(ParamName(NamesBefore(s.slots, i) + j),
                                       p * 100 + 10 + NamesBefore(s.slots, i) + j) ],
                               IF i = 1 THEN s.first ELSE LaterTypeExpr) ]),
                 Results |->
                   CASE s.results = "nil"   -> Nil
                     [] s.results = "empty" -> Ptr(<<>>)
                     [] OTHER               -> Ptr(<<Field(<<>>, "bool")>>) ] ]

\* A declaration that is no function: *ast.GenDecl, or *ast.BadDecl (the
\* parser's placeholder for a declaration with syntax errors).
OtherDecl(kind) ==
    [ kind |-> kind, Doc |-> Nil, Recv |-> Nil, Name |-> NewIdent(""),
      Type |-> [Params |-> Nil, Results |-> Nil] ]

NoDecl == OtherDecl("none")

------------------------------------------------------------------------------
(* The program's functions                                                  *)

\* Mutant: every type passes.
isValidMethodTypeAny(typ) == typ = typ

isValidMethodType(typ) == typ \in validMethodTypes

\* The loops of genMethod over a doc comment and over the parameter list.
copyDoc(doc) ==
    Ptr(IF doc.nil THEN <<>>
        ELSE [i \in 1..Len(doc.List) |-> [Slash |-> 0, Text |-> doc.List[i].Text]])

RECURSIVE callArgs(_)
callArgs(fields) ==
    IF fields = <<>> THEN <<>>
    ELSE Head(fields).Names \o callArgs(Tail(fields))

methodName(funcName, rename) ==
    IF funcName \in DOMAIN rename THEN rename[funcName] ELSE funcName

\* Mutant: the first parameter is kept.
methodParamsAll(list) == list

methodParams(list) == SubSeq(list, 2, Len(list))

\* Mutant: an empty result list counts as a result.
hasReturnNonNil(results) == ~results.nil

hasReturn(results) == ~results.nil /\ Len(results.List) > 0

\* Mutant: the receiver is not passed.
forwardCallRest(funcDecl) ==
    [Fun |-> funcDecl.Name,
     Args |-> callArgs(methodParams(funcDecl.Type.Params.List))]

\* Mutant: the call goes to the renamed identifier.
forwardCallRenamed(funcDecl) ==
    [Fun |-> NewIdent(methodName(funcDecl.Name.Name, renameMethod)),
     Args |-> callArgs(funcDecl.Type.Params.List)]

forwardCall(funcDecl) ==
    [Fun |-> funcDecl.Name, Args |-> callArgs(funcDecl.Type.Params.List)]

\* The *ast.FuncDecl genMethod builds for funcDecl under a renaming table.
methodDecl(funcDecl, rename) ==
    LET params         == funcDecl.Type.Params.List
        firstParam     == params[1]
        firstParamName == firstParam.Names[1]
        firstParamType == firstParam.Type
        funcName       == funcDecl.Name.Name
        callExpr       == forwardCall(funcDecl)
        stmt           == IF hasReturn(funcDecl.Type.Results)
                            THEN [kind |-> "ReturnStmt", call |-> callExpr]
                            ELSE [kind |-> "ExprStmt", call |-> callExpr]
    IN  [ Doc  |-> copyDoc(funcDecl.Doc),
          Recv |-> Ptr(<<Field(<<NewIdent(firstParamName.Name)>>, firstParamType)>>),
          Name |-> NewIdent(methodName(funcName, rename)),
          Type |-> [ Params  |-> Ptr(methodParams(funcDecl.Type.Params.List)),
                     Results |-> funcDecl.Type.Results ],
          Body |-> <<stmt>> ]

\* Mutant: the new method is put in front.
genMethodPrepend(gmethods, funcDecl) ==
    <<methodDecl(funcDecl, renameMethod)>> \o gmethods

\* gen.methods after genMethod(funcDecl).
genMethod(gmethods, funcDecl) ==
    Append(gmethods, methodDecl(funcDecl, renameMethod))

\* Mutant: a group of names passes.
firstParamNamedOrGrouped(firstParam) == Len(firstParam.Names) >= 1

\* The first parameter slot passes the name check of parseFuncDecl.
firstParamNamed(firstParam) == Len(firstParam.Names) = 1

\* Mutant: no receiver check.
parseFuncDeclNoRecvCheck(gmethods, decl) ==
    LET params == decl.Type.Params.List IN
    IF Len(params) = 0 THEN gmethods
    ELSE LET firstParam == params[1] IN
         IF ~firstParamNamed(firstParam) THEN gmethods
         ELSE IF ~isValidMethodType(TypeString[firstParam.Type]) THEN gmethods
         ELSE genMethod(gmethods, decl)

\* gen.methods after parseFuncDecl(decl).
parseFuncDecl(gmethods, decl) ==
    IF ~decl.Recv.nil THEN gmethods
    ELSE LET params == decl.Type.Params.List IN
         IF Len(params) = 0 THEN gmethods
         ELSE LET firstParam == params[1] IN
              IF ~firstParamNamed(firstParam) THEN gmethods
              ELSE IF ~isValidMethodType(TypeString[firstParam.Type]) THEN gmethods
              ELSE genMethod(gmethods, decl)

\* packages.Load returns an error, or a list of packages; a package with
\* syntax or type errors is returned with a non-empty Errors list.
Package(path, name, errors) == [PkgPath |-> path, Name |-> name, Errors |-> errors]

NoPkg == Package("", "", FALSE)

LoadResults ==
    { [err |-> TRUE,  pkgs |-> <<>>],
      [err |-> FALSE, pkgs |-> <<>>],
      [err |-> FALSE, pkgs |-> <<Package("unsafe", "unsafe", FALSE)>>],
      [err |-> FALSE, pkgs |-> <<Package(DefaultPkgPath, "sdl", FALSE)>>],
      [err |-> FALSE, pkgs |-> <<Package("unsafe", "unsafe", FALSE),
                                  Package(DefaultPkgPath, "sdl", TRUE)>>] }

\* loadPkg: the first package of the list with the requested path.
loadPkg(pkgPath, res) ==
    IF res.err THEN [err |-> TRUE, pkg |-> NoPkg]
    ELSE LET hits == { i \in 1..Len(res.pkgs) : res.pkgs[i].PkgPath = pkgPath } IN
         IF hits = {} THEN [err |-> TRUE, pkg |-> NoPkg]
         ELSE [err |-> FALSE,
               pkg |-> res.pkgs[CHOOSE i \in hits : \A j \in hits : i <= j]]

\* The text printMethods formats: the header line (pre and the newline of
\* Fprintln), the package clause, then the methods in the order of gen.methods.
formatFile(pkgName, gmethods) ==
    <<pre \o "\n", "package " \o pkgName>> \o gmethods

\* Exit status of main: log.Fatalf on an error, the runtime on a panic.
ExitStatus(e) == CASE e = "" -> 0 [] e = "panic" -> 2 [] OTHER -> 1

------------------------------------------------------------------------------
(* The run                                                                  *)

VARIABLES
    pc,       \* "start", "parse" (inside parsePkg), "done"
    load,     \* what packages.Load returned
    pkg,      \* gen.pkg
    nodes,    \* offset in the package's syntax reached by the visit
    file,     \* number of files parseFile was called on
    decl,     \* the declaration last handed to parseDecl
    methods,  \* gen.methods
    err,      \* "" or where the run failed: "load", "format", "write", "panic"
    output,   \* the -o flag, as printMethods reads it
    dest,     \* the file at the output path
    prior,    \* the file at the output path when printMethods starts
    stdout    \* the text printed to standard output

vars == <<pc, load, pkg, nodes, file, decl, methods, err, output, dest, prior, stdout>>

\* The file at the output path: absent, or with its chunks of text.
Absent == [exists |-> FALSE, data |-> <<>>]
Content(data) == [exists |-> TRUE, data |-> data]
PriorFiles == {Absent, Content(<<"// old methods">>)}
Outputs == {"", "methods.go"}

Init ==
    /\ pc = "start"
    /\ load = [err |-> FALSE, pkgs |-> <<>>]
    /\ pkg = NoPkg
    /\ nodes = 0
    /\ file = 0
    /\ decl = NoDecl
    /\ methods = <<>>
    /\ err = ""
    /\ output = ""
    /\ prior = Absent
    /\ dest = Absent
    /\ stdout = <<>>

\* genMethods: loadPkg fails, main reports the error and exits.
LoadPkgFail ==
    /\ pc = "start"
    /\ \E res \in LoadResults :
          /\ loadPkg(DefaultPkgPath, res).err
          /\ load' = res
    /\ pc' = "done"
    /\ err' = "load"
    /\ UNCHANGED <<pkg, nodes, file, decl, methods, output, dest, prior, stdout>>

\* genMethods: loadPkg returns the package and parsePkg starts.
LoadPkgOK ==
    /\ pc = "start"
    /\ \E res \in LoadResults :
          /\ ~loadPkg(DefaultPkgPath, res).err
          /\ load' = res
          /\ pkg' = loadPkg(DefaultPkgPath, res).pkg
    /\ pc' = "parse"
    /\ UNCHANGED <<nodes, file, decl, methods, err, output, dest, prior, stdout>>

\* parsePkg: the next file of gen.pkg.Syntax is handed to parseFile.
ParseFile ==
    /\ pc = "parse"
    /\ nodes < MaxNodes
    /\ file' = file + 1
    /\ nodes' = nodes + 1
    /\ UNCHANGED <<pc, load, pkg, decl, methods, err, output, dest, prior, stdout>>

\* parseDecl on a *ast.GenDecl: nothing to do.
ParseGenDecl ==
    /\ pc = "parse"
    /\ file >= 1
    /\ nodes < MaxNodes
    /\ decl' = OtherDecl("GenDecl")
    /\ nodes' = nodes + 1
    /\ UNCHANGED <<pc, load, pkg, file, methods, err, output, dest, prior, stdout>>

\* parseDecl on a *ast.FuncDecl: parseFuncDecl.
ParseFuncDecl ==
    /\ pc = "parse"
    /\ file >= 1
    /\ \E n \in 1..(MaxNodes - nodes) : \E s \in ShapesOfSize[n] :
          /\ decl' = FuncDeclAt(s, nodes + 1)
          /\ nodes' = nodes + n
    /\ methods' = parseFuncDecl(methods, decl')
    /\ UNCHANGED <<pc, load, pkg, file, err, output, dest, prior, stdout>>

\* parseDecl on any other declaration (the *ast.BadDecl of a file with syntax
\* errors): panic.
ParseBadDecl ==
    /\ pc = "parse"
    /\ file >= 1
    /\ pkg.Errors
    /\ nodes < MaxNodes
    /\ decl' = OtherDecl("BadDecl")
    /\ nodes' = nodes + 1
    /\ pc' = "done"
    /\ err' = "panic"
    /\ UNCHANGED <<load, pkg, file, methods, output, dest, prior, stdout>>

\* printMethods after parsePkg returned: format.Node or format.Source fails.
\* Whether the formatter rejects the tree is not decided by the program: the
\* failure is drawn for every tree.
\* Nothing before this point reads the -o flag or the file at the output
\* path: both are drawn here.
PrintFormatFail ==
    /\ pc = "parse"
    /\ \E o \in Outputs, f \in PriorFiles :
          /\ output' = o
          /\ prior' = f
          /\ dest' = f
    /\ pc' = "done"
    /\ err' = "format"
    /\ UNCHANGED <<load, pkg, nodes, file, decl, methods, stdout>>

\* printMethods without -o: the text goes to standard output.
PrintStdout ==
    /\ pc = "parse"
    /\ output' = ""
    /\ \E f \in PriorFiles :
          /\ prior' = f
          /\ dest' = f
    /\ stdout' = formatFile(pkg.Name, methods)
    /\ pc' = "done"
    /\ UNCHANGED <<load, pkg, nodes, file, decl, methods, err>>

\* printMethods with -o: os.WriteFile opens the file truncating it, writes
\* and closes.  It fails before the truncation (the file untouched), or after
\* it with only the first k chunks of the text written.
PrintWriteFail ==
    /\ pc = "parse"
    /\ \E o \in Outputs \ {""}, f \in PriorFiles :
          /\ output' = o
          /\ prior' = f
          /\ \/ dest' = f
             \/ \E k \in 0..(Len(formatFile(pkg.Name, methods)) - 1) :
                   dest' = Content(SubSeq(formatFile(pkg.Name, methods), 1, k))
    /\ pc' = "done"
    /\ err' = "write"
    /\ UNCHANGED <<load, pkg, nodes, file, decl, methods, stdout>>

\* printMethods with -o: os.WriteFile succeeds.
PrintWriteOK ==
    /\ pc = "parse"
    /\ \E o \in Outputs \ {""}, f \in PriorFiles :
          /\ output' = o
          /\ prior' = f
    /\ dest' = Content(formatFile(pkg.Name, methods))
    /\ pc' = "done"
    /\ UNCHANGED <<load, pkg, nodes, file, decl, methods, err, stdout>>

Next ==
    \/ LoadPkgFail
    \/ LoadPkgOK
    \/ ParseFile
    \/ ParseGenDecl
    \/ ParseFuncDecl
    \/ ParseBadDecl
    \/ PrintFormatFail
    \/ PrintStdout
    \/ PrintWriteFail
    \/ PrintWriteOK

Spec == Init /\ [][Next]_vars

------------------------------------------------------------------------------
(* Vocabulary of the properties                                             *)

\* The spec's eligibility rules for a visited declaration.
Accepted(d) ==
    /\ d.kind = "FuncDecl"
    /\ d.Recv.nil
    /\ Len(d.Type.Params.List) >= 1
    /\ Len(d.Type.Params.List[1].Names) = 1
    /\ TypeString[d.Type.Params.List[1].Type] \in validMethodTypes

\* The forwarding call of a synthesized method.
CallOf(m) == m.Body[1].call

\* Method m forwards to the function declared by d (the callee is d's own
\* identifier node).
FromDecl(m, d) == d.kind = "FuncDecl" /\ CallOf(m).Fun = d.Name

LastMethod == methods[Len(methods)]

\* Number of names in the first i slots of a parameter list.
RECURSIVE CountNames(_, _)
CountNames(fields, i) ==
    IF i = 0 THEN 0 ELSE CountNames(fields, i - 1) + Len(fields[i].Names)

EmptyTable == [x \in {} |-> ""]

------------------------------------------------------------------------------
(* C1: every method of gen.methods has a receiver type whose canonical      *)
(* string is in validMethodTypes, and it is the type expression of the      *)
(* first parameter of the function it forwards to.                          *)
C1_ReceiverSoundness ==
    /\ \A i \in 1..Len(methods) :
          /\ Len(methods[i].Recv.List) = 1
          /\ TypeString[methods[i].Recv.List[1].Type] \in validMethodTypes
    /\ \A i \in 1..Len(methods) :
          FromDecl(methods[i], decl) =>
             /\ Len(decl.Type.Params.List) >= 1
             /\ methods[i].Recv.List[1].Type = decl.Type.Params.List[1].Type

\* A method was generated, and the function visited last, with one name and
\* a first parameter type outside the allow-list, got none.
C1_Witness ==
    /\ Len(methods) = 1
    /\ decl.kind = "FuncDecl" /\ decl.Recv.nil
    /\ Len(decl.Type.Params.List) = 1
    /\ Len(decl.Type.Params.List[1].Names) = 1
    /\ decl.Type.Params.List[1].Type = "*Event"
    /\ ~FromDecl(LastMethod, decl)

(* C2: the forwarding call of the method generated for a function passes    *)
(* one argument per parameter name of the function's full parameter list,   *)
(* the receiver's included, in the list's order: argument number            *)
(* CountNames(ps, i-1) + j is the j-th name of slot i.                      *)
C2_ArgumentCompleteness ==
    /\ \A i \in 1..Len(methods) :
          LET m    == methods[i]
              args == CallOf(m).Args
              rest == m.Type.Params.List
          IN  /\ Len(args) = 1 + CountNames(rest, Len(rest))
              /\ args[1].Name = m.Recv.List[1].Names[1].Name
              /\ \A k \in 1..Len(rest) : \A j \in 1..Len(rest[k].Names) :
                    args[1 + CountNames(rest, k - 1) + j] = rest[k].Names[j]
    /\ Accepted(decl) =>
          /\ Len(methods) >= 1
          /\ FromDecl(LastMethod, decl)
          /\ LET ps   == decl.Type.Params.List
                 args == CallOf(LastMethod).Args
             IN  /\ Len(args) = CountNames(ps, Len(ps))
                 /\ \A k \in 1..Len(ps) : \A j \in 1..Len(ps[k].Names) :
                       args[CountNames(ps, k - 1) + j] = ps[k].Names[j]

\* The function visited last was accepted and a later slot of it groups two
\* names.
C2_Witness ==
    /\ Accepted(decl)
    /\ Len(methods) >= 1
    /\ FromDecl(LastMethod, decl)
    /\ \E k \in 2..Len(decl.Type.Params.List) :
          Len(decl.Type.Params.List[k].Names) = 2
    /\ Len(CallOf(LastMethod).Args) = 3

(* C3: a declaration that has a receiver gets no method: after its visit no *)
(* method of gen.methods forwards to it, whatever its parameters are.       *)
C3_NonRegeneration ==
    (decl.kind = "FuncDecl" /\ ~decl.Recv.nil) =>
        \A i \in 1..Len(methods) : ~FromDecl(methods[i], decl)

\* A method with a single-named, allow-listed first parameter was visited.
C3_Witness ==
    /\ decl.kind = "FuncDecl" /\ ~decl.Recv.nil
    /\ Len(decl.Type.Params.List) >= 1
    /\ Len(decl.Type.Params.List[1].Names) = 1
    /\ TypeString[decl.Type.Params.List[1].Type] \in validMethodTypes
    /\ pc = "parse"

(* C4: for an accepted function with slots p1..pn and result list R, the    *)
(* method has one receiver with the name and type expression of p1, the     *)
(* parameter list p2..pn in that order and without p1, and the result       *)
(* list R.                                                                  *)
C4_SignatureRewrite ==
    Accepted(decl) =>
        /\ Len(methods) >= 1
        /\ FromDecl(LastMethod, decl)
        /\ LET m  == LastMethod
               ps == decl.Type.Params.List
           IN  /\ ~m.Recv.nil
               /\ Len(m.Recv.List) = 1
               /\ Len(m.Recv.List[1].Names) = 1
               /\ m.Recv.List[1].Names[1].Name = ps[1].Names[1].Name
               /\ m.Recv.List[1].Type = ps[1].Type
               /\ ~m.Type.Params.nil
               /\ Len(m.Type.Params.List) = Len(ps) - 1
               /\ \A i \in 1..(Len(ps) - 1) : m.Type.Params.List[i] = ps[i + 1]
               /\ \A i \in 1..Len(m.Type.Params.List) : m.Type.Params.List[i] # ps[1]
               /\ m.Type.Results = decl.Type.Results

\* An accepted function with three slots and a result.
C4_Witness ==
    /\ Accepted(decl)
    /\ Len(decl.Type.Params.List) = 3
    /\ ~decl.Type.Results.nil /\ Len(decl.Type.Results.List) = 1
    /\ Len(methods) >= 1
    /\ Len(LastMethod.Type.Params.List) = 2

(* C5: a method is named by renameMethod's entry for the function it        *)
(* forwards to, or as the function when the table has no entry; the callee  *)
(* is the function's own, unrenamed identifier; and but for its name the    *)
(* method is the one an empty renaming table gives.                         *)
C5_RenamingCosmetic ==
    /\ \A i \in 1..Len(methods) :
          LET m == methods[i]
              f == CallOf(m).Fun
          IN  /\ f.NamePos # 0
              /\ f.Name \in FuncNames
              /\ m.Name.Name = IF f.Name \in DOMAIN renameMethod
                                 THEN renameMethod[f.Name] ELSE f.Name
    /\ Accepted(decl) =>
          /\ Len(methods) >= 1
          /\ CallOf(LastMethod).Fun = decl.Name
          /\ methodDecl(decl, EmptyTable).Name.Name = decl.Name.Name
          /\ [LastMethod EXCEPT !.Name = NewIdent(decl.Name.Name)]
                = methodDecl(decl, EmptyTable)

\* A renamed method and a method that kept the function's identifier.
C5_Witness ==
    /\ Len(methods) = 2
    /\ methods[1].Name.Name = "Destroy"
    /\ CallOf(methods[1]).Fun.Name = "DestroyWindow"
    /\ methods[2].Name.Name = "PollEvent"
    /\ CallOf(methods[2]).Fun.Name = "PollEvent"

(* C6: the body of a method is one statement: a return of the forwarding    *)
(* call exactly when the result list is non-nil and non-empty, else the     *)
(* call as an expression statement.                                         *)
C6_BodyShape ==
    \A i \in 1..Len(methods) :
        LET m == methods[i]
            nonEmpty == ~m.Type.Results.nil /\ Len(m.Type.Results.List) > 0
        IN  /\ Len(m.Body) = 1
            /\ m.Body[1].kind \in {"ReturnStmt", "ExprStmt"}
            /\ (m.Body[1].kind = "ReturnStmt") <=> nonEmpty
            /\ (m.Body[1].kind = "ExprStmt") <=> ~nonEmpty
            /\ CallOf(m).Fun.NamePos # 0

\* One method for a function with an empty, non-nil result list, one for a
\* function with a result.
C6_Witness ==
    /\ Len(methods) = 2
    /\ ~methods[1].Type.Results.nil
    /\ methods[1].Type.Results.List = <<>>
    /\ methods[1].Body[1].kind = "ExprStmt"
    /\ methods[2].Body[1].kind = "ReturnStmt"

(* C7: gen.methods grows by exactly one method, appended at the end, when   *)
(* an accepted function is visited, and no other step changes it; the text  *)
(* a successful run emits is the header and the package clause followed by  *)
(* gen.methods in that order, and only the two when nothing was accepted.   *)
C7_Step ==
    IF decl' # decl /\ Accepted(decl')
      THEN /\ Len(methods') = Len(methods) + 1
           /\ SubSeq(methods', 1, Len(methods)) = methods
           /\ FromDecl(methods'[Len(methods')], decl')
           /\ \A i \in 1..Len(methods) : ~FromDecl(methods[i], decl')
      ELSE methods' = methods

C7_Emitted ==
    (pc = "done" /\ err = "") =>
        LET text == IF output = "" THEN stdout ELSE dest.data IN
        /\ Len(text) = 2 + Len(methods)
        /\ text[1] = pre \o "\n"
        /\ text[2] = "package " \o pkg.Name
        /\ \A i \in 1..Len(methods) : text[2 + i] = methods[i]
        /\ \A i, j \in 1..Len(methods) :
              i < j => CallOf(text[2 + i]).Fun.NamePos < CallOf(text[2 + j]).Fun.NamePos

C7_EmissionOrder == [][C7_Step]_vars /\ []C7_Emitted

\* A successful run emitted two methods, the second from a second file.
C7_Witness ==
    /\ pc = "done" /\ err = ""
    /\ file = 2
    /\ Len(methods) = 2
    /\ FromDecl(methods[2], decl)
    /\ Len(IF output = "" THEN stdout ELSE dest.data) = 4

(* C8: when the package cannot be located or parsed, the run ends with the  *)
(* error of loadPkg and a non-zero exit status, no declaration was visited  *)
(* and nothing was written.                                                 *)
PackageBroken(res) ==
    \/ res.err
    \/ \A i \in 1..Len(res.pkgs) : res.pkgs[i].PkgPath # DefaultPkgPath
    \/ \E i \in 1..Len(res.pkgs) :
          res.pkgs[i].PkgPath = DefaultPkgPath /\ res.pkgs[i].Errors

C8_LoadFailureFatal ==
    (pc # "start" /\ PackageBroken(load)) =>
        /\ pc = "done"
        /\ err = "load"
        /\ ExitStatus(err) # 0
        /\ decl = NoDecl
        /\ methods = <<>>
        /\ stdout = <<>>
        /\ dest = prior

(* C9: when writing to the output path fails, the run ends with an error    *)
(* and the file holds its complete prior content or the complete new text.  *)
C9_WriteAllOrNothing ==
    (pc = "done" /\ err = "write") =>
        /\ ExitStatus(err) # 0
        /\ \/ dest = prior
           \/ dest = Content(formatFile(pkg.Name, methods))

(* C10: a visit changes gen.methods only for a function without receiver,   *)
(* with at least one slot and exactly one name in the first slot; a         *)
(* function whose first slot has no name or several is skipped: the visit   *)
(* leaves gen.methods alone, raises no error and parsePkg goes on.          *)
C10_Step ==
    (decl' # decl /\ decl'.kind = "FuncDecl") =>
        LET ps == decl'.Type.Params.List IN
        /\ methods' # methods =>
              /\ decl'.Recv.nil
              /\ Len(ps) >= 1
              /\ Len(ps[1].Names) = 1
              /\ methods'[Len(methods')].Recv.List[1].Names[1].Name
                    = ps[1].Names[1].Name
        /\ (Len(ps) >= 1 /\ Len(ps[1].Names) # 1) =>
              /\ methods' = methods
              /\ err' = ""
              /\ pc' = "parse"

C10_SynthesizerPrecondition == [][C10_Step]_vars

\* A function without receiver whose first slot groups two names of an
\* allow-listed type was visited, and parsePkg goes on.
C10_Witness ==
    /\ decl.kind = "FuncDecl" /\ decl.Recv.nil
    /\ Len(decl.Type.Params.List) >= 1
    /\ Len(decl.Type.Params.List[1].Names) = 2
    /\ TypeString[decl.Type.Params.List[1].Type] \in validMethodTypes
    /\ methods = <<>>
    /\ pc = "parse" /\ err = ""

====
